---- MODULE Spec2Model ----
(***************************************************************************)
(* A model of misc/python/materialize/util.py: the MzVersion class (a      *)
(* semver Version whose string form carries a leading "v") and the         *)
(* naughty_strings fixture cache.                                          *)
(*                                                                         *)
(* Python strings are sequences of one-character strings.  An optional     *)
(* value (None or a value) is the empty sequence or a one-element          *)
(* sequence.  A call's outcome is a record [kind, val]: kind is "return"   *)
(* or the name of the exception raised, val the optional value returned.   *)
(***************************************************************************)
EXTENDS Naturals, Sequences, FiniteSets

VARIABLES op, version, drop_dev_suffix, numbers, prerelease, self, metadata,
          result, NAUGHTY_STRINGS, blns, reads, calls, returned

vars == <<op, version, drop_dev_suffix, numbers, prerelease, self, metadata,
          result, NAUGHTY_STRINGS, blns, reads, calls, returned>>

\* ------------------------------------------------------------------ bounds

\* Longest string of the exhaustive part of the parse inputs.
MaxLen == 3
\* Largest major number of the generated versions (two digits are reached).
MaxMajor == 10
\* Largest minor and patch number of the generated versions.
MaxMinor == 1
\* Longest package list of the cargo metadata.
MaxPackages == 3
\* Longest fixture list in blns.json.
MaxFixtureLen == 3
\* Number of naughty_strings() calls followed.
MaxCalls == 3

\* ------------------------------------------------------- strings of Python

DigitChars == <<"0", "1", "2", "3", "4", "5", "6", "7", "8", "9">>

Digits == {DigitChars[i] : i \in 1..10}

Letters ==
    {"a", "b", "c", "d", "e", "f", "g", "h", "i", "j", "k", "l", "m",
     "n", "o", "p", "q", "r", "s", "t", "u", "v", "w", "x", "y", "z",
     "A", "B", "C", "D", "E", "F", "G", "H", "I", "J", "K", "L", "M",
     "N", "O", "P", "Q", "R", "S", "T", "U", "V", "W", "X", "Y", "Z"}

None == <<>>

Some(x) == <<x>>

Return(x) == [kind |-> "return", val |-> <<x>>]

ReturnNone == [kind |-> "return", val |-> <<>>]

Raise(e) == [kind |-> e, val |-> <<>>]

NoCall == [kind |-> "nocall", val |-> <<>>]

\* c in s
Contains(s, c) == \E i \in 1..Len(s) : s[i] = c

\* s.index(c), 1-based; c occurs in s
IndexOf(s, c) == CHOOSE i \in 1..Len(s) : s[i] = c /\ \A j \in 1..(i - 1) : s[j] # c

\* s.split(sep) for a one-character separator: the list of the parts
RECURSIVE Split(_, _)
Split(s, sep) ==
    IF ~Contains(s, sep)
    THEN <<s>>
    ELSE LET i == IndexOf(s, sep)
         IN  <<SubSeq(s, 1, i - 1)>> \o Split(SubSeq(s, i + 1, Len(s)), sep)

\* A plausible slip: only the first occurrence is replaced (count=1).
Replace_FirstOnly(s, old, new) ==
    IF \E k \in 1..Len(s) : k + Len(old) - 1 <= Len(s) /\ SubSeq(s, k, k + Len(old) - 1) = old
    THEN LET k == CHOOSE k \in 1..Len(s) :
                      /\ k + Len(old) - 1 <= Len(s)
                      /\ SubSeq(s, k, k + Len(old) - 1) = old
                      /\ \A j \in 1..(k - 1) : SubSeq(s, j, j + Len(old) - 1) # old
         IN  SubSeq(s, 1, k - 1) \o new \o SubSeq(s, k + Len(old), Len(s))
    ELSE s

\* s.replace(old, new) for a non-empty old: one pass from the left over the
\* non-overlapping occurrences; what a replacement produces is not rescanned.
RECURSIVE Replace(_, _, _)
Replace(s, old, new) ==
    IF Len(s) < Len(old)
    THEN s
    ELSE IF SubSeq(s, 1, Len(old)) = old
         THEN new \o Replace(SubSeq(s, Len(old) + 1, Len(s)), old, new)
         ELSE <<s[1]>> \o Replace(Tail(s), old, new)

\* s.lstrip(c): every leading c is removed
RECURSIVE LStrip(_, _)
LStrip(s, c) == IF s # <<>> /\ s[1] = c THEN LStrip(Tail(s), c) ELSE s

DigitVal(c) == (CHOOSE i \in 1..10 : DigitChars[i] = c) - 1

\* int(s) for a string of decimal digits
RECURSIVE DecToNat(_)
DecToNat(s) ==
    IF Len(s) = 1
    THEN DigitVal(s[1])
    ELSE 10 * DecToNat(SubSeq(s, 1, Len(s) - 1)) + DigitVal(s[Len(s)])

\* "%d" % n (also f"{n}") for a non-negative int
RECURSIVE NatToDec(_)
NatToDec(n) ==
    IF n < 10
    THEN <<DigitChars[n + 1]>>
    ELSE NatToDec(n \div 10) \o <<DigitChars[(n % 10) + 1]>>

\* ---------------------------------------------- the semver library's Version

\* (0|[1-9]\d*)
IsNumericId(t) ==
    /\ t # <<>>
    /\ \A i \in 1..Len(t) : t[i] \in Digits
    /\ (Len(t) > 1 => t[1] # "0")

\* (0|[1-9]\d*|\d*[a-zA-Z-][0-9a-zA-Z-]*)
IsPrereleaseId(t) ==
    /\ t # <<>>
    /\ \A i \in 1..Len(t) : t[i] \in Digits \cup Letters \cup {"-"}
    /\ ((\A i \in 1..Len(t) : t[i] \in Digits) => (Len(t) > 1 => t[1] # "0"))

\* [0-9a-zA-Z-]+
IsBuildId(t) ==
    /\ t # <<>>
    /\ \A i \in 1..Len(t) : t[i] \in Digits \cup Letters \cup {"-"}

IsPrerelease(p) ==
    LET parts == Split(p, ".") IN \A i \in 1..Len(parts) : IsPrereleaseId(parts[i])

IsBuild(b) ==
    LET parts == Split(b, ".") IN \A i \in 1..Len(parts) : IsBuildId(parts[i])

\* cls.parse(s): the whole string must match
\*   major.minor.patch[-prerelease][+build]
\* and the value is of class cls; anything else raises ValueError.
Version_parse(cls, s) ==
    LET hasBuild == Contains(s, "+")
        left     == IF hasBuild THEN SubSeq(s, 1, IndexOf(s, "+") - 1) ELSE s
        buildS   == IF hasBuild THEN SubSeq(s, IndexOf(s, "+") + 1, Len(s)) ELSE <<>>
        hasPre   == Contains(left, "-")
        core     == IF hasPre THEN SubSeq(left, 1, IndexOf(left, "-") - 1) ELSE left
        preS     == IF hasPre THEN SubSeq(left, IndexOf(left, "-") + 1, Len(left)) ELSE <<>>
        nums     == Split(core, ".")
    IN  IF /\ Len(nums) = 3
           /\ \A i \in 1..3 : IsNumericId(nums[i])
           /\ (hasPre => IsPrerelease(preS))
           /\ (hasBuild => IsBuild(buildS))
        THEN Return([cls        |-> cls,
                     major      |-> DecToNat(nums[1]),
                     minor      |-> DecToNat(nums[2]),
                     patch      |-> DecToNat(nums[3]),
                     prerelease |-> IF hasPre THEN Some(preS) ELSE None,
                     build      |-> IF hasBuild THEN Some(buildS) ELSE None])
        ELSE Raise("ValueError")

\* Version.__str__: the standard semver string
Version_str(v) ==
    NatToDec(v.major) \o <<".">> \o NatToDec(v.minor) \o <<".">> \o NatToDec(v.patch)
        \o (IF v.prerelease # None THEN <<"-">> \o v.prerelease[1] ELSE <<>>)
        \o (IF v.build # None THEN <<"+">> \o v.build[1] ELSE <<>>)

\* Version.__eq__: compare() == 0, which looks at major, minor, patch and the
\* prerelease and at neither the build nor the class.
VersionEq(a, b) ==
    /\ <<a.major, a.minor, a.patch>> = <<b.major, b.minor, b.patch>>
    /\ a.prerelease = b.prerelease

\* --------------------------------------------------------------- MzVersion

\* A plausible slip: the prefix is left out.
MzVersion_str_NoPrefix(v) == Version_str(v)

\* MzVersion.__str__
MzVersion_str(v) == <<"v">> \o Version_str(v)

\* str(x): dispatch on the class of x
Str(v) == IF v.cls = "MzVersion" THEN MzVersion_str(v) ELSE Version_str(v)

DEV == <<"-", "d", "e", "v">>

\* A plausible slip: the dash is left in place (replace("dev", "")).
parse_mz_body_KeepDash(body, drop) ==
    Version_parse("MzVersion",
                  IF drop THEN Replace(body, <<"d", "e", "v">>, <<>>) ELSE body)

\* parse_mz, from the optional suffix removal on: the body, hash split off
parse_mz_body(body, drop) ==
    Version_parse("MzVersion", IF drop THEN Replace(body, DEV, <<>>) ELSE body)

\* A plausible slip: the negations are lost and a well-formed token is refused.
git_hash_invalid_Inverted(git_hash) ==
    git_hash[1] = "(" \/ git_hash[Len(git_hash)] = ")"

\* the test of the hash token; git_hash is not empty
git_hash_invalid(git_hash) ==
    ~(git_hash[1] = "(") \/ ~(git_hash[Len(git_hash)] = ")")

\* MzVersion.parse_mz.  version[0] of "" and git_hash[0] of "" raise
\* IndexError; unpacking a split of more than two parts raises ValueError.
parse_mz(v, drop) ==
    IF v = <<>>
    THEN Raise("IndexError")
    ELSE IF ~(v[1] = "v")
    THEN Raise("ValueError")
    ELSE LET rest == Tail(v) IN
         IF Contains(rest, " ")
         THEN LET parts == Split(rest, " ") IN
              IF Len(parts) # 2
              THEN Raise("ValueError")
              ELSE IF parts[2] = <<>>
              THEN Raise("IndexError")
              ELSE IF git_hash_invalid(parts[2])
              THEN Raise("ValueError")
              ELSE parse_mz_body(parts[1], drop)
         ELSE parse_mz_body(rest, drop)

\* MzVersion.create_mz; pre is the optional prerelease
create_mz(major, minor, patch, pre) ==
    LET prerelease_suffix == IF pre # None THEN <<"-">> \o pre[1] ELSE <<>>
    IN  parse_mz(<<"v">> \o NatToDec(major) \o <<".">> \o NatToDec(minor) \o <<".">>
                     \o NatToDec(patch) \o prerelease_suffix,
                 FALSE)

\* MzVersion.try_parse_mz: except ValueError only
try_parse_mz(v, drop) ==
    LET r == parse_mz(v, drop)
    IN  IF r.kind = "ValueError" THEN ReturnNone ELSE r

\* MzVersion.is_mz_version_string
is_mz_version_string(v) ==
    LET r == try_parse_mz(v, FALSE)
    IN  IF r.kind = "return" THEN Return(r.val # None) ELSE r

\* A plausible slip: the string is parsed with its prefix.
to_semver_NoStrip(v) == Version_parse("Version", Str(v))

\* MzVersion.to_semver
to_semver(v) == Version_parse("Version", LStrip(Str(v), "v"))

\* MzVersion.from_semver
from_semver(v) == Version_parse("MzVersion", Str(v))

TargetPackage == "mz-environmentd"

\* A plausible slip: the version field is read as an Mz version string.
parse_cargo_AsMz(packages) ==
    IF \E i \in 1..Len(packages) : packages[i].name = TargetPackage
    THEN LET i == CHOOSE i \in 1..Len(packages) :
                      /\ packages[i].name = TargetPackage
                      /\ \A j \in 1..(i - 1) : packages[j].name # TargetPackage
         IN  parse_mz(packages[i].version, FALSE)
    ELSE Raise("ValueError")

\* MzVersion.parse_cargo over metadata["packages"]: the loop returns at the
\* first entry of the name, and its else branch raises.
RECURSIVE parse_cargo(_)
parse_cargo(packages) ==
    IF packages = <<>>
    THEN Raise("ValueError")
    ELSE IF packages[1].name = TargetPackage
         THEN Version_parse("MzVersion", packages[1].version)
         ELSE parse_cargo(Tail(packages))

\* ------------------------------------------------------------- the inputs

\* The characters of the exhaustive part of the parse inputs.
ShortAlphabet == {"v", "1", ".", "-", " ", "(", ")", "a"}

\* Every string over ShortAlphabet of at most MaxLen characters.
ShortStrings == UNION {[1..n -> ShortAlphabet] : n \in 0..MaxLen}

\* major.minor.patch cores, well-formed and not
Cores ==
    {<<"1", ".", "2", ".", "3">>,
     <<"0", ".", "4", "5", ".", "0">>,
     <<"1", ".", "2">>,
     <<"0", "1", ".", "2", ".", "3">>,
     <<"1", ".", "2", ".", "3", ".", "4">>,
     <<>>,
     <<"1", ".", ".", "3">>,
     <<"a", ".", "2", ".", "3">>}

\* prerelease parts, with their dash
Pres ==
    {<<>>,
     <<"-", "d", "e", "v">>,
     <<"-", "r", "c", "1">>,
     <<"-", "d", "e", "v", "-", "d", "e", "v">>,
     <<"-", "d", "-", "d", "e", "v", "e", "v">>,
     <<"-", "d", "e", "v", ".", "1">>,
     <<"-">>,
     <<"-", "0", "1">>}

\* build parts, with their plus
Builds ==
    {<<>>,
     <<"+", "b", "7">>,
     <<"+", "-", "d", "e", "v">>,
     <<"+">>}

\* what follows the version body: nothing, a hash token, or something else
Tails ==
    {<<>>,
     <<" ", "(", "f", "0", ")">>,
     <<" ", "(", ")">>,
     <<" ">>,
     <<" ", "f", "0">>,
     <<" ", "(", "f", "0">>,
     <<" ", "f", "0", ")">>,
     <<" ", "(", "f", "0", ")", " ">>,
     <<" ", " ", "(", "f", "0", ")">>,
     <<" ", "(", "-", "d", "e", "v", ")">>,
     <<" ", "-", "d", "e", "v", "(", "f", "0", ")">>,
     <<" ", "(", "f", "0", ")", " ", "(", "f", "0", ")">>}

\* strings that do not begin with "v"
BadPrefixes ==
    {<<>>,
     <<"V">>,
     <<"-", "d", "e", "v", "v">>,
     <<" ", "v">>}

Triples == (0..MaxMajor) \X (0..MaxMinor) \X (0..MaxMinor)

TripleStr(t) ==
    NatToDec(t[1]) \o <<".">> \o NatToDec(t[2]) \o <<".">> \o NatToDec(t[3])

HashTail == <<" ", "(", "f", "0", ")">>

\* "v{major}.{minor}.{patch}-dev"
DevText(t) == <<"v">> \o TripleStr(t) \o DEV

\* the same with a parenthesized hash
DevHashText(t) == DevText(t) \o HashTail

VersionTexts ==
    {<<"v">> \o c \o p \o b \o t : c \in Cores, p \in Pres, b \in Builds, t \in Tails}

UnprefixedTexts ==
    {x \o c \o p \o t : x \in BadPrefixes, c \in Cores, p \in {<<>>, DEV},
                        t \in {<<>>, HashTail}}

TripleTexts ==
    {<<"v">> \o TripleStr(t) \o p \o h : t \in Triples, p \in {<<>>, DEV},
                                         h \in {<<>>, HashTail}}

\* The strings parse_mz, try_parse_mz and is_mz_version_string are called on.
Inputs == ShortStrings \cup VersionTexts \cup UnprefixedTexts \cup TripleTexts

\* The prerelease arguments of create_mz (None, or the text after the dash).
PrereleaseArgs ==
    {None} \cup {Some(Tail(p)) : p \in Pres \ {<<>>}}
           \cup {Some(Tail(p) \o b) : p \in {DEV}, b \in Builds \ {<<>>}}

\* The entries of metadata["packages"]: a name and a version string.
PackageVersions ==
    {<<"0", ".", "4", "5", ".", "0">>,
     <<"v", "0", ".", "4", "5", ".", "0">>,
     <<"1", ".", "2", ".", "3", "-", "d", "e", "v">>,
     <<"1", ".", "2">>}

Packages ==
    [name : {TargetPackage, "mz-adapter"}, version : PackageVersions]

Metadatas == UNION {[1..n -> Packages] : n \in 0..MaxPackages}

\* The lists blns.json may hold.
NaughtyValues == {"", "undefined", "1/0"}

Fixtures == UNION {[1..n -> NaughtyValues] : n \in 0..MaxFixtureLen}

\* ------------------------------------------------------------ the machine

NaughtyVars == <<NAUGHTY_STRINGS, blns, reads, calls, returned>>

VersionVars == <<op, version, drop_dev_suffix, numbers, prerelease, self, metadata, result>>

\* A call of o is about to be made with these arguments (the arguments the
\* operation does not take are at their defaults).
Pending(o, v, d, n, p, m) ==
    /\ op = o
    /\ version = v
    /\ drop_dev_suffix = d
    /\ numbers = n
    /\ prerelease = p
    /\ self = None
    /\ metadata = m
    /\ result = NoCall

\* The module is imported (NAUGHTY_STRINGS = None) and naughty_strings() has
\* not been called; f is the list in blns.json.
NaughtyIdle(f) ==
    /\ NAUGHTY_STRINGS = None
    /\ blns = f
    /\ reads = 0
    /\ calls = 0
    /\ returned = None

\* The functions are pure: a behaviour is one call on arguments drawn here,
\* followed by the methods called on what it returned.
VersionInit ==
    \/ \E t \in Triples, p \in PrereleaseArgs :
           Pending("create_mz", <<>>, FALSE, t, p, <<>>)
    \/ \E o \in {"parse_mz", "try_parse_mz"}, v \in Inputs, d \in BOOLEAN :
           Pending(o, v, d, <<0, 0, 0>>, None, <<>>)
    \/ \E v \in Inputs :
           Pending("is_mz_version_string", v, FALSE, <<0, 0, 0>>, None, <<>>)
    \/ \E m \in Metadatas :
           Pending("parse_cargo", <<>>, FALSE, <<0, 0, 0>>, None, m)

Init == VersionInit /\ NaughtyIdle(<<>>)

\* The last call returned an MzVersion out of create_mz or parse_mz.
HasMzVersion ==
    /\ op \in {"create_mz", "parse_mz"}
    /\ result.kind = "return"
    /\ result.val # None

CreateMz ==
    /\ op = "create_mz"
    /\ result = NoCall
    /\ result' = create_mz(numbers[1], numbers[2], numbers[3], prerelease)
    /\ UNCHANGED <<op, version, drop_dev_suffix, numbers, prerelease, self, metadata>>
    /\ UNCHANGED NaughtyVars

ParseMz ==
    /\ op = "parse_mz"
    /\ result = NoCall
    /\ result' = parse_mz(version, drop_dev_suffix)
    /\ UNCHANGED <<op, version, drop_dev_suffix, numbers, prerelease, self, metadata>>
    /\ UNCHANGED NaughtyVars

TryParseMz ==
    /\ op = "try_parse_mz"
    /\ result = NoCall
    /\ result' = try_parse_mz(version, drop_dev_suffix)
    /\ UNCHANGED <<op, version, drop_dev_suffix, numbers, prerelease, self, metadata>>
    /\ UNCHANGED NaughtyVars

IsMzVersionString ==
    /\ op = "is_mz_version_string"
    /\ result = NoCall
    /\ result' = is_mz_version_string(version)
    /\ UNCHANGED <<op, version, drop_dev_suffix, numbers, prerelease, self, metadata>>
    /\ UNCHANGED NaughtyVars

ParseCargo ==
    /\ op = "parse_cargo"
    /\ result = NoCall
    /\ result' = parse_cargo(metadata)
    /\ UNCHANGED <<op, version, drop_dev_suffix, numbers, prerelease, self, metadata>>
    /\ UNCHANGED NaughtyVars

\* str(x) of the version x the last call returned
StrMz ==
    /\ HasMzVersion
    /\ op' = "str"
    /\ self' = result.val
    /\ result' = Return(Str(result.val[1]))
    /\ UNCHANGED <<version, drop_dev_suffix, numbers, prerelease, metadata>>
    /\ UNCHANGED NaughtyVars

\* x.to_semver() of the version x the last call returned
ToSemver ==
    /\ HasMzVersion
    /\ op' = "to_semver"
    /\ self' = result.val
    /\ result' = to_semver(result.val[1])
    /\ UNCHANGED <<version, drop_dev_suffix, numbers, prerelease, metadata>>
    /\ UNCHANGED NaughtyVars

\* MzVersion.from_semver(y) of the plain version y that to_semver returned;
\* self stays the version y was made from
FromSemver ==
    /\ op = "to_semver"
    /\ result.kind = "return"
    /\ op' = "from_semver"
    /\ result' = from_semver(result.val[1])
    /\ UNCHANGED <<version, drop_dev_suffix, numbers, prerelease, self, metadata>>
    /\ UNCHANGED NaughtyVars

Next ==
    \/ CreateMz
    \/ ParseMz
    \/ TryParseMz
    \/ IsMzVersionString
    \/ ParseCargo
    \/ StrMz
    \/ ToSemver
    \/ FromSemver

Spec == Init /\ [][Next]_vars

\* naughty_strings(): the file is read when NAUGHTY_STRINGS is falsy (None
\* or an empty list), and the global is returned.
NaughtyStrings ==
    /\ calls < MaxCalls
    /\ calls' = calls + 1
    /\ IF NAUGHTY_STRINGS = None \/ NAUGHTY_STRINGS[1] = <<>>
       THEN /\ reads' = reads + 1
            /\ NAUGHTY_STRINGS' = Some(blns)
       ELSE /\ UNCHANGED reads
            /\ UNCHANGED NAUGHTY_STRINGS
    /\ returned' = NAUGHTY_STRINGS'
    /\ UNCHANGED blns
    /\ UNCHANGED VersionVars

\* No call of the MzVersion class is made.
VersionIdle == Pending("none", <<>>, FALSE, <<0, 0, 0>>, None, <<>>)

InitNaughty == VersionIdle /\ \E f \in Fixtures : NaughtyIdle(f)

NextNaughty == NaughtyStrings

SpecNaughty == InitNaughty /\ [][NextNaughty]_vars

\* -------------------------------------------------------- the properties

\* A call has been made and result is its outcome.
Called(o) == op = o /\ result # NoCall

Spaces(s) == {i \in 1..Len(s) : s[i] = " "}

\* What follows the first space of s.
AfterSpace(s) == SubSeq(s, IndexOf(s, " ") + 1, Len(s))

\* t is "v" + body + " " + token, with one space in all and a token that
\* starts with "(" and ends with ")".
HashForm(t) ==
    /\ t # <<>>
    /\ t[1] = "v"
    /\ Cardinality(Spaces(Tail(t))) = 1
    /\ LET tok == AfterSpace(Tail(t))
       IN  tok # <<>> /\ tok[1] = "(" /\ tok[Len(tok)] = ")"

\* The version body of t: what stands between the "v" and the first space.
BodyOf(t) ==
    LET rest == Tail(t)
    IN  IF Contains(rest, " ") THEN SubSeq(rest, 1, IndexOf(rest, " ") - 1) ELSE rest

\* Well-formed hash tokens.
HashTokens ==
    {<<"(", ")">>,
     <<"(", "f", "0", ")">>,
     <<"(", "-", "d", "e", "v", ")">>,
     <<"(", "(", "v", "1", ")", ")">>}

\* The positions of s that lie inside an occurrence of pat.
Covered(s, pat) ==
    {i \in 1..Len(s) :
        \E k \in 1..i : /\ i < k + Len(pat)
                        /\ k + Len(pat) - 1 <= Len(s)
                        /\ SubSeq(s, k, k + Len(pat) - 1) = pat}

RECURSIVE KeepFrom(_, _, _)
KeepFrom(s, cov, i) ==
    IF i > Len(s)
    THEN <<>>
    ELSE (IF i \in cov THEN <<>> ELSE <<s[i]>>) \o KeepFrom(s, cov, i + 1)

\* s with every occurrence of pat deleted.
DeleteOccurrences(s, pat) == KeepFrom(s, Covered(s, pat), 1)

\* The number of occurrences of pat in s.
Occurrences(s, pat) ==
    Cardinality({k \in 1..Len(s) :
                    k + Len(pat) - 1 <= Len(s) /\ SubSeq(s, k, k + Len(pat) - 1) = pat})

\* C1: str(x) of a version x that create_mz or parse_mz returned is "v"
\* followed by the semver string of x, and parse_mz(str(x)) returns a version
\* equal to x (field by field, hence also by ==).
C1_RoundTrip ==
    op = "str" =>
        LET x == self[1]
            s == result.val[1]
            r == parse_mz(s, FALSE)
        IN  /\ s = <<"v">> \o Version_str(x)
            /\ r.kind = "return"
            /\ r.val = Some(x)
            /\ VersionEq(r.val[1], x)

\* str() was taken of a version with a two-digit major number and a
\* prerelease that parse_mz read from a string with a hash.
C1_Witness ==
    /\ op = "str"
    /\ Contains(version, " ")
    /\ self[1].major = 10
    /\ self[1].prerelease # None

\* C2: for a valid version body b and a token "(h)" without a space,
\* parse_mz("v" + b + " (h)") gives what parse_mz("v" + b) gives under the
\* same drop_dev_suffix, whatever the token is, and with the default
\* drop_dev_suffix=False it succeeds.
C2_HashDiscarded ==
    (/\ Called("parse_mz")
     /\ HashForm(version)
     /\ Version_parse("MzVersion", BodyOf(version)).kind = "return")
    => LET plain == parse_mz(<<"v">> \o BodyOf(version), drop_dev_suffix)
       IN  /\ result = plain
           /\ (~drop_dev_suffix =>
                   /\ result.kind = "return"
                   /\ VersionEq(result.val[1], plain.val[1]))
           /\ \A h \in HashTokens :
                  parse_mz(<<"v">> \o BodyOf(version) \o <<" ">> \o h, drop_dev_suffix)
                      = result

\* parse_mz returned a version with a prerelease and a build from a string
\* with a hash token.
C2_Witness ==
    /\ Called("parse_mz")
    /\ HashForm(version)
    /\ ~drop_dev_suffix
    /\ result.kind = "return"
    /\ result.val[1].prerelease # None
    /\ result.val[1].build # None

\* C3: parse_mz raises ValueError for every string that does not begin with
\* "v", the empty string included.
C3_NoPrefixIsValueError ==
    (Called("parse_mz") /\ (version = <<>> \/ version[1] # "v"))
    => result = Raise("ValueError")

\* C4: parse_mz raises ValueError, and nothing else, for every "v" + rest
\* whose rest holds a space and is not a body, one space and a token that
\* starts with "(" and ends with ")".
C4_OtherSpaceIsValueError ==
    (/\ Called("parse_mz")
     /\ version # <<>>
     /\ version[1] = "v"
     /\ Contains(Tail(version), " ")
     /\ ~HashForm(version))
    => result = Raise("ValueError")

\* C5: try_parse_mz never raises: it returns what parse_mz returns when that
\* succeeds and None otherwise; is_mz_version_string is true exactly when
\* try_parse_mz returns a version.
C5_TryParseNeverRaises ==
    /\ Called("try_parse_mz") =>
           LET r == parse_mz(version, drop_dev_suffix)
           IN  /\ result.kind = "return"
               /\ result = IF r.kind = "return" THEN r ELSE ReturnNone
    /\ Called("is_mz_version_string") =>
           LET r == parse_mz(version, FALSE)
           IN  result = Return(r.kind = "return")

\* The strings "v{major}.{minor}.{patch}-dev", bare and with a hash.
DevTexts == {DevText(t) : t \in Triples} \cup {DevHashText(t) : t \in Triples}

\* C6: parse_mz("v{major}.{minor}.{patch}-dev", drop_dev_suffix=True), also
\* with a hash after it, equals create_mz(major, minor, patch); with
\* drop_dev_suffix=False it returns a version of the same numbers whose
\* prerelease is "dev", not equal to create_mz(major, minor, patch).
C6_ReleaseNormalization ==
    (Called("parse_mz") /\ version \in DevTexts)
    => LET t == CHOOSE t \in Triples : version \in {DevText(t), DevHashText(t)}
           c == create_mz(t[1], t[2], t[3], None)
       IN  /\ c.kind = "return"
           /\ <<c.val[1].major, c.val[1].minor, c.val[1].patch>> = t
           /\ result.kind = "return"
           /\ IF drop_dev_suffix
              THEN result = c /\ VersionEq(result.val[1], c.val[1])
              ELSE /\ result.val[1].prerelease = Some(<<"d", "e", "v">>)
                   /\ <<result.val[1].major, result.val[1].minor,
                        result.val[1].patch>> = t
                   /\ ~VersionEq(result.val[1], c.val[1])

\* parse_mz dropped the suffix of "v10.1.0-dev (f0)".
C6_Witness ==
    /\ Called("parse_mz")
    /\ drop_dev_suffix
    /\ version = DevHashText(<<10, 1, 0>>)
    /\ result.kind = "return"
    /\ result.val[1].prerelease = None

\* C7: parse_cargo returns the version field of the first package named
\* mz-environmentd, parsed by the plain semver grammar (a leading "v" is an
\* error), whatever the other entries are, and raises ValueError when no
\* package has that name.
C7_CargoFirstMatch ==
    Called("parse_cargo") =>
        IF \E i \in 1..Len(metadata) : metadata[i].name = "mz-environmentd"
        THEN LET i == CHOOSE i \in 1..Len(metadata) :
                          /\ metadata[i].name = "mz-environmentd"
                          /\ \A j \in 1..(i - 1) : metadata[j].name # "mz-environmentd"
             IN  /\ result = Version_parse("MzVersion", metadata[i].version)
                 /\ (metadata[i].version[1] = "v" => result = Raise("ValueError"))
        ELSE result = Raise("ValueError")

\* parse_cargo returned the version of the second of three packages, the
\* first of two named mz-environmentd with different versions.
C7_Witness ==
    /\ Called("parse_cargo")
    /\ Len(metadata) = 3
    /\ metadata[1].name # "mz-environmentd"
    /\ metadata[2].name = "mz-environmentd"
    /\ metadata[3].name = "mz-environmentd"
    /\ metadata[2].version # metadata[3].version
    /\ result.kind = "return"
    /\ result.val[1].prerelease # None

\* C8: to_semver(x) is a plain Version with the fields of x whose string is
\* that of x without the leading "v", and from_semver of it is x again.
C8_PlainSemverRoundTrip ==
    /\ op = "to_semver" =>
           LET x == self[1]
           IN  /\ result.kind = "return"
               /\ LET y == result.val[1]
                  IN  /\ y.cls = "Version"
                      /\ y = [x EXCEPT !.cls = "Version"]
                      /\ Str(y)[1] # "v"
                      /\ <<"v">> \o Str(y) = Str(x)
                      /\ from_semver(y) = Return(x)
    /\ op = "from_semver" =>
           /\ result = Return(self[1])
           /\ VersionEq(result.val[1], self[1])

\* from_semver gave back a version with a prerelease and a build.
C8_Witness ==
    /\ op = "from_semver"
    /\ result.kind = "return"
    /\ self[1].prerelease # None
    /\ self[1].build # None

\* C9: with drop_dev_suffix=True, a string that passes the "v" test and the
\* test of the hash token is parsed as its version body with every
\* occurrence of "-dev" deleted (the token plays no part), and a string that
\* fails one of the two tests is not rescued by the removal.
C9_DevRemoval ==
    (Called("parse_mz") /\ drop_dev_suffix)
    => IF version # <<>> /\ version[1] = "v"
          /\ (Contains(Tail(version), " ") => HashForm(version))
       THEN result = Version_parse("MzVersion", DeleteOccurrences(BodyOf(version), DEV))
       ELSE result.kind # "return"

\* parse_mz removed two occurrences of "-dev" from the body of a string
\* whose hash token holds "-dev" too.
C9_Witness ==
    /\ Called("parse_mz")
    /\ drop_dev_suffix
    /\ HashForm(version)
    /\ Occurrences(BodyOf(version), DEV) = 2
    /\ Occurrences(AfterSpace(Tail(version)), DEV) = 1
    /\ result.kind = "return"

\* C10: over any sequence of calls the fixture file is read at most once and
\* every call returns the list it holds, an empty list included.
C10_LoadOnce ==
    /\ reads <= 1
    /\ (calls >= 1 => returned = Some(blns))

====
